---- MODULE Spec2Model ----
(***************************************************************************)
(* StrategyFileEncrypter: the three EncryptionStrategy classes (XOR,       *)
(* Caesar, Binary) and the IFileEncryptor driver of src/main.cpp.          *)
(*                                                                         *)
(* A std::string is a sequence of bytes, each byte the bit pattern 0..255  *)
(* of one char.  Whether plain char is signed is implementation-defined;   *)
(* charSigned is chosen in Init and every char conversion goes through     *)
(* CharValue / ToChar.                                                     *)
(***************************************************************************)
EXTENDS Integers, Sequences, FiniteSets, TLC

VARIABLES
    charSigned,  \* the build's plain char is signed
    \* ---- in-memory use of one strategy: decrypt(encrypt(text, key), key)
    text,        \* the text handed to the first call
    key,         \* the key handed to every call
    strat,       \* the strategy object the calls are made on
    pc,          \* "start" | "encrypted" | "decrypted" | "direct"
    out,         \* outcome of the last call
    \* ---- IFileEncryptor
    fs,          \* path -> content of the file, or Missing
    strategy,    \* IFileEncryptor::strategy
    lastSet,     \* argument of the last setStrategy call that was non-null
    lastArg,     \* argument of the last setStrategy call
    call,        \* the last encrypt/decrypt call on the IFileEncryptor
    result       \* what that call produced

strategyVars == <<text, key, strat, pc, out>>
fileVars == <<fs, strategy, lastSet, lastArg, call, result>>
vars == <<charSigned, text, key, strat, pc, out, fs, strategy, lastSet, lastArg, call, result>>

----------------------------------------------------------------------------
(* Bounds of the model *)

MaxTextLen == 2
MaxKeyLen == 3
MaxBitLen == 8
MaxFileLen == 8

(* Bytes the bounded texts are built from: 'a' and a byte >= 128 *)
TextBytes == {97, 200}
(* Characters the bounded keys are built from: '9', 'a', '-', ' ' *)
KeyChars == {57, 97, 45, 32}
(* Characters of the bounded ciphertexts handed to Binary decrypt *)
BitChars == {48, 49}

Byte == 0..255

RECURSIVE SeqsUpTo(_, _)
SeqsUpTo(S, n) ==
    IF n = 0 THEN {<<>>}
    ELSE LET shorter == SeqsUpTo(S, n - 1)
         IN  shorter \cup {Append(s, b) : s \in shorter, b \in S}

(* every single byte, and the short texts over TextBytes *)
Texts == {<<b>> : b \in Byte} \cup SeqsUpTo(TextBytes, MaxTextLen)
Keys == SeqsUpTo(KeyChars, MaxKeyLen)
(* "0110a000", "a0000000", " 0000011", "-0000001": chunks that are not pure binary *)
OddChunks == { <<48,49,49,48,97,48,48,48>>, <<97,48,48,48,48,48,48,48>>,
               <<32,48,48,48,48,48,49,49>>, <<45,48,48,48,48,48,48,49>> }
BitTexts == SeqsUpTo(BitChars, MaxBitLen) \cup OddChunks
BitKeys == {<<>>, <<57>>}

----------------------------------------------------------------------------
(* char arithmetic *)

ASCIISize == 255

(* the value of a char whose bit pattern is b *)
CharValue(b) == IF charSigned /\ b >= 128 THEN b - 256 ELSE b

(* conversion of an integer to char: the low 8 bits, as a bit pattern *)
ToChar(n) == n % 256

RECURSIVE BitXor(_, _, _)
(* a ^ b on the low n bits *)
BitXor(a, b, n) ==
    IF n = 0 THEN 0
    ELSE (((a % 2) + (b % 2)) % 2) + 2 * BitXor(a \div 2, b \div 2, n - 1)

RECURSIVE PowMod(_, _, _)
PowMod(b, e, m) == IF e = 0 THEN 1 % m ELSE (b * PowMod(b, e - 1, m)) % m

----------------------------------------------------------------------------
(* outcomes of a call: a returned string, or an exception / a crash *)

Ok(s) == [kind |-> "ok", value |-> s, oob |-> FALSE]
Throw(e) == [kind |-> e, value |-> <<>>, oob |-> FALSE]
NoOutcome == [kind |-> "none", value |-> <<>>, oob |-> FALSE]

----------------------------------------------------------------------------
(* std::stoull(str, nullptr, base), base 2 or 10: strtoull on str.c_str().  *)
(* Leading whitespace is skipped, one sign is accepted, then the longest    *)
(* run of digits is converted; no digit at all throws invalid_argument. A   *)
(* '-' negates the value in unsigned 64-bit arithmetic, so the value is     *)
(* kept as (neg, mag) and reduced by the callers.                           *)

IsSpace(c) == c = 32 \/ c \in 9..13
IsDigit(c, base) == c >= 48 /\ c < 48 + base

RECURSIVE SkipSpace(_, _)
SkipSpace(s, i) == IF i <= Len(s) /\ IsSpace(s[i]) THEN SkipSpace(s, i + 1) ELSE i

RECURSIVE DigitsValue(_, _, _, _)
(* value of the digit run of s that starts at i, acc the value so far *)
DigitsValue(s, i, base, acc) ==
    IF i <= Len(s) /\ IsDigit(s[i], base)
    THEN DigitsValue(s, i + 1, base, acc * base + (s[i] - 48))
    ELSE acc

(* stoull that refuses a string with anything after the digits *)
stoull_Strict(s, base) ==
    LET i == SkipSpace(s, 1)
        signed == i <= Len(s) /\ s[i] \in {43, 45}
        j == IF signed THEN i + 1 ELSE i
    IN  IF j <= Len(s) /\ \A n \in j..Len(s) : IsDigit(s[n], base)
        THEN [ok |-> TRUE, neg |-> signed /\ s[i] = 45,
              mag |-> DigitsValue(s, j, base, 0)]
        ELSE [ok |-> FALSE, neg |-> FALSE, mag |-> 0]

stoull(s, base) ==
    LET i == SkipSpace(s, 1)
        signed == i <= Len(s) /\ s[i] \in {43, 45}
        j == IF signed THEN i + 1 ELSE i
    IN  IF j <= Len(s) /\ IsDigit(s[j], base)
        THEN [ok |-> TRUE, neg |-> signed /\ s[i] = 45,
              mag |-> DigitsValue(s, j, base, 0)]
        ELSE [ok |-> FALSE, neg |-> FALSE, mag |-> 0]

(* v % m for the unsigned long long v = (neg, mag), mag < 2^64 *)
ULLMod(v, m) ==
    IF v.neg /\ v.mag > 0
    THEN (PowMod(2, 64, m) + m - (v.mag % m)) % m
    ELSE v.mag % m

----------------------------------------------------------------------------
(* XOREncryptionStrategy *)

(* XOREncrypt with + in place of ^ *)
XOREncrypt_Add(t, k) ==
    IF k = <<>> THEN Ok(t)
    ELSE Ok([i \in 1..Len(t) |-> ToChar(t[i] + k[((i - 1) % Len(k)) + 1])])

XOREncrypt(t, k) ==
    IF k = <<>> THEN Ok(t)
    ELSE Ok([i \in 1..Len(t) |-> BitXor(t[i], k[((i - 1) % Len(k)) + 1], 8)])

XORDecrypt(t, k) == XOREncrypt(t, k)

----------------------------------------------------------------------------
(* CaesarEncryptionStrategy *)

(* char(shift % ASCIISize) *)
CaesarShift(k) == CharValue(ToChar(ULLMod(stoull(k, 10), ASCIISize)))

CaesarEncrypt(t, k) ==
    IF ~stoull(k, 10).ok THEN Throw("invalid_argument")
    ELSE Ok([i \in 1..Len(t) |-> ToChar(CharValue(t[i]) + CaesarShift(k))])

(* CaesarDecrypt reducing the shift modulo 256 where encrypt reduces it modulo ASCIISize *)
CaesarDecrypt_Mod256(t, k) ==
    IF ~stoull(k, 10).ok THEN Throw("invalid_argument")
    ELSE Ok([i \in 1..Len(t) |->
               ToChar(CharValue(t[i]) - CharValue(ToChar(ULLMod(stoull(k, 10), 256))))])

CaesarDecrypt(t, k) ==
    IF ~stoull(k, 10).ok THEN Throw("invalid_argument")
    ELSE Ok([i \in 1..Len(t) |-> ToChar(CharValue(t[i]) - CaesarShift(k))])

----------------------------------------------------------------------------
(* BinaryEncryptionStrategy *)

RECURSIVE BitString_LSBFirst(_, _)
(* BitString with the lowest bit first *)
BitString_LSBFirst(v, n) ==
    IF n = 0 THEN <<>>
    ELSE <<48 + (v % 2)>> \o BitString_LSBFirst(v \div 2, n - 1)

RECURSIVE BitString(_, _)
(* std::bitset<n>(v).to_string(): the low n bits of v as '0'/'1', highest first *)
BitString(v, n) ==
    IF n = 0 THEN <<>>
    ELSE Append(BitString(v \div 2, n - 1), 48 + (v % 2))

RECURSIVE BinaryEncode(_, _)
(* the loop of encrypt over text[i..] *)
BinaryEncode(t, i) ==
    IF i > Len(t) THEN <<>>
    ELSE BitString(ToChar(CharValue(t[i])), 8) \o BinaryEncode(t, i + 1)

BinaryEncrypt(t, k) == Ok(BinaryEncode(t, 1))

RECURSIVE BinaryDecode_Base10(_, _, _)
(* BinaryDecode with stoull(segment) left at its default base 10 *)
BinaryDecode_Base10(t, i, decoded) ==
    IF i = Len(t) + 1 THEN {Ok(decoded)}
    ELSE IF i + 7 > Len(t)
    THEN {[kind |-> "invalid_argument", value |-> <<>>, oob |-> TRUE],
          [kind |-> "crash", value |-> <<>>, oob |-> TRUE]}
    ELSE LET ASCII == stoull(SubSeq(t, i, i + 7), 10)
         IN  IF ~ASCII.ok THEN {Throw("invalid_argument")}
             ELSE BinaryDecode_Base10(t, i + 8, Append(decoded, ToChar(ULLMod(ASCII, 256))))

RECURSIVE BinaryDecode(_, _, _)
(* the loop of decrypt from position i on, decoded the bytes written so far. *)
(* A segment that starts at or before the last character but does not end    *)
(* within the text is built from characters beyond text.end(): the read is   *)
(* undefined, and so is every later comparison of the iterator, which has    *)
(* stepped over text.end().  The run then ends in stoull's invalid_argument  *)
(* on the foreign bytes or in a fault.                                       *)
BinaryDecode(t, i, decoded) ==
    IF i = Len(t) + 1 THEN {Ok(decoded)}
    ELSE IF i + 7 > Len(t)
    THEN {[kind |-> "invalid_argument", value |-> <<>>, oob |-> TRUE],
          [kind |-> "crash", value |-> <<>>, oob |-> TRUE]}
    ELSE LET ASCII == stoull(SubSeq(t, i, i + 7), 2)
         IN  IF ~ASCII.ok THEN {Throw("invalid_argument")}
             ELSE BinaryDecode(t, i + 8, Append(decoded, ToChar(ULLMod(ASCII, 256))))

BinaryDecrypt(t, k) == BinaryDecode(t, 1, <<>>)

----------------------------------------------------------------------------
(* virtual dispatch on EncryptionStrategy: the set of outcomes of a call *)

StrategyKinds == {"XOR", "Caesar", "Binary"}

EncryptOutcomes(s, t, k) ==
    CASE s = "XOR" -> {XOREncrypt(t, k)}
      [] s = "Caesar" -> {CaesarEncrypt(t, k)}
      [] s = "Binary" -> {BinaryEncrypt(t, k)}

DecryptOutcomes(s, t, k) ==
    CASE s = "XOR" -> {XORDecrypt(t, k)}
      [] s = "Caesar" -> {CaesarDecrypt(t, k)}
      [] s = "Binary" -> BinaryDecrypt(t, k)

----------------------------------------------------------------------------
(* In-memory use of one strategy object, as main() uses each of them: an    *)
(* encrypt call, then a decrypt call on what it returned, with the same key; *)
(* or a decrypt call on a text that was handed in.                          *)

EncryptCall(s) ==
    /\ pc = "start"
    /\ out' \in EncryptOutcomes(s, text, key)
    /\ strat' = s
    /\ pc' = "encrypted"
    /\ UNCHANGED <<text, key, charSigned, fs, strategy, lastSet, lastArg, call, result>>

DecryptCall(s) ==
    \/ /\ pc = "start"
       /\ out' \in DecryptOutcomes(s, text, key)
       /\ strat' = s
       /\ pc' = "direct"
       /\ UNCHANGED <<text, key, charSigned, fs, strategy, lastSet, lastArg, call, result>>
    \/ /\ pc = "encrypted"
       /\ strat = s
       /\ out.kind = "ok"
       /\ out' \in DecryptOutcomes(s, out.value, key)
       /\ pc' = "decrypted"
       /\ UNCHANGED <<text, key, strat, charSigned, fs, strategy, lastSet, lastArg, call, result>>

XOREncryptCall == EncryptCall("XOR")
XORDecryptCall == DecryptCall("XOR")
CaesarEncryptCall == EncryptCall("Caesar")
CaesarDecryptCall == DecryptCall("Caesar")
BinaryEncryptCall == EncryptCall("Binary")
BinaryDecryptCall == DecryptCall("Binary")

----------------------------------------------------------------------------
(* The file system and IFileEncryptor *)

Paths == {"a", "b", "u"}
(* "u" lies in a directory that does not exist: never readable, never created *)
Writable(p) == p \in {"a", "b"}
(* the paths the calls read from; "b" does not exist until it is written *)
SourcePaths == {"a", "b"}

Missing == [exists |-> FALSE, data |-> <<>>]
File(d) == [exists |-> TRUE, data |-> d]

(* what file "a" holds at the start; "b" does not exist yet *)
InitialData == {<<200>>, <<48, 49, 49, 48, 48, 48, 48, 49>>}

(* "", and "128" whose Caesar shift is its own inverse on 8 bits *)
FileKeys == {<<>>, <<49, 50, 56>>}

(* std::ofstream output(path, std::ios::trunc): creates or empties the file; *)
(* the open fails, and the stream stays unusable, when it cannot be created  *)
OpenTrunc(f, p) == IF Writable(p) THEN [f EXCEPT ![p] = File(<<>>)] ELSE f

(* output << s, on the stream opened on p *)
WriteTo(f, p, s) == IF Writable(p) THEN [f EXCEPT ![p] = File(s)] ELSE f

(* getTextFromFile: the whole content; a stream that failed to open reads as empty *)
getTextFromFile(f, p) == IF f[p].exists THEN f[p].data ELSE <<>>

(* setStrategy without the null check *)
setStrategy_Clears(s) ==
    /\ result # "crash"
    /\ strategy' = s
    /\ lastSet' = IF s # "null" THEN s ELSE lastSet
    /\ lastArg' = s
    /\ UNCHANGED <<fs, call, result, charSigned, text, key, strat, pc, out>>

setStrategy(s) ==
    /\ result # "crash"
    /\ IF s # "null"
       THEN strategy' = s /\ lastSet' = s
       ELSE UNCHANGED <<strategy, lastSet>>
    /\ lastArg' = s
    /\ UNCHANGED <<fs, call, result, charSigned, text, key, strat, pc, out>>

(* encrypt / decrypt of IFileEncryptor; op is "encrypt" or "decrypt" *)
FileCall(op, from, to, k) ==
    /\ result # "crash"
    /\ call' = [op |-> op, from |-> from, to |-> to, key |-> k, bound |-> strategy,
                fromBefore |-> fs[from], toBefore |-> fs[to]]
    /\ IF strategy = "null"
       THEN result' = "false" /\ fs' = fs
       ELSE LET opened == OpenTrunc(fs, to)
                input == getTextFromFile(opened, from)
            IN  IF strategy \notin StrategyKinds
                THEN \* a call through an indeterminate pointer
                     result' = "crash" /\ fs' = opened
                ELSE \E o \in (IF op = "encrypt"
                               THEN EncryptOutcomes(strategy, input, k)
                               ELSE DecryptOutcomes(strategy, input, k)) :
                        /\ Len(o.value) <= MaxFileLen
                        /\ IF o.kind = "ok"
                           THEN result' = "true" /\ fs' = WriteTo(opened, to, o.value)
                           ELSE result' = o.kind /\ fs' = opened
    /\ UNCHANGED <<strategy, lastSet, lastArg, charSigned, text, key, strat, pc, out>>

FileEncrypt == \E from \in SourcePaths, to \in Paths, k \in FileKeys : FileCall("encrypt", from, to, k)
FileDecrypt == \E from \in SourcePaths, to \in Paths, k \in FileKeys : FileCall("decrypt", from, to, k)
SetStrategy == \E s \in StrategyKinds \cup {"null"} : setStrategy(s)

----------------------------------------------------------------------------
(* Specifications *)

NoCall == [op |-> "none", from |-> "a", to |-> "a", key |-> <<>>, bound |-> "null",
           fromBefore |-> Missing, toBefore |-> Missing]

IdleStrategy ==
    /\ text = <<>> /\ key = <<>> /\ strat = "none" /\ pc = "idle" /\ out = NoOutcome

(* IFileEncryptor has no constructor and main() declares it without an       *)
(* initializer: strategy starts indeterminate, null or not.                  *)
InitFile ==
    /\ charSigned \in BOOLEAN
    /\ fs \in { [p \in Paths |-> IF p = "a" THEN File(d) ELSE Missing] : d \in InitialData }
    /\ strategy \in {"null", "garbage"}
    /\ lastSet = "none"
    /\ lastArg = "none"
    /\ call = NoCall
    /\ result = "none"
    /\ IdleStrategy

NextFile == SetStrategy \/ FileEncrypt \/ FileDecrypt

Spec == InitFile /\ [][NextFile]_vars

InitStrategy ==
    /\ charSigned \in BOOLEAN
    /\ \/ text \in Texts /\ key \in Keys
       \/ text \in BitTexts /\ key \in BitKeys
    /\ strat = "none"
    /\ pc = "start"
    /\ out = NoOutcome
    /\ fs = [p \in Paths |-> Missing]
    /\ strategy = "null"
    /\ lastSet = "none"
    /\ lastArg = "none"
    /\ call = NoCall
    /\ result = "none"

NextStrategy ==
    \/ XOREncryptCall \/ XORDecryptCall
    \/ CaesarEncryptCall \/ CaesarDecryptCall
    \/ BinaryEncryptCall \/ BinaryDecryptCall

SpecStrategy == InitStrategy /\ [][NextStrategy]_vars

----------------------------------------------------------------------------
(* Properties *)

RECURSIVE Pow2(_)
Pow2(n) == IF n = 0 THEN 1 ELSE 2 * Pow2(n - 1)

(* bit j of the byte b, bit 0 the lowest *)
Bit(b, j) == (b \div Pow2(j)) % 2

(* the key byte that meets text position i (1-based) *)
KeyAt(k, i) == k[((i - 1) % Len(k)) + 1]

(* C1: for a non-empty key, XOR encrypt returns a text of the same length    *)
(* whose every bit is the text's bit xor the bit of the cyclically repeated  *)
(* key, and XOR decrypt of that text with the same key returns the text.     *)
C1_XORRoundTrip ==
    (strat = "XOR" /\ key # <<>>) =>
        /\ pc = "encrypted" =>
              /\ out.kind = "ok"
              /\ Len(out.value) = Len(text)
              /\ \A i \in 1..Len(text) : \A j \in 0..7 :
                   Bit(out.value[i], j) = 1 <=> Bit(text[i], j) # Bit(KeyAt(key, i), j)
        /\ pc = "decrypted" => out = Ok(text)

C1_Witness ==
    /\ strat = "XOR" /\ pc = "decrypted"
    /\ Len(key) >= 2 /\ Len(text) > Len(key) - 1 /\ key[1] # key[2]
    /\ out = Ok(text)

(* all characters of k are decimal digits, and there is at least one *)
IsDecimal(k) == k # <<>> /\ \A i \in 1..Len(k) : k[i] \in 48..57

RECURSIVE DecimalValue(_)
DecimalValue(k) ==
    IF k = <<>> THEN 0 ELSE 10 * DecimalValue(SubSeq(k, 1, Len(k) - 1)) + (k[Len(k)] - 48)

C3_BinaryRoundTrip ==
    (strat = "Binary" /\ pc = "decrypted") => out = Ok(text)

C3_Witness ==
    /\ strat = "Binary" /\ pc = "decrypted"
    /\ text # <<>> /\ text[1] >= 128 /\ key # <<>>
    /\ out = Ok(text)

(* C4: Binary encrypt returns 8 characters per byte, all '0' or '1', the      *)
(* characters 8i..8i+7 being the bits of byte i, highest first.               *)
C4_BinaryEncoding ==
    (strat = "Binary" /\ pc = "encrypted") =>
        /\ out.kind = "ok"
        /\ Len(out.value) = 8 * Len(text)
        /\ \A n \in 1..Len(out.value) : out.value[n] \in {48, 49}
        /\ \A i \in 1..Len(text) : \A j \in 0..7 :
             out.value[8 * (i - 1) + j + 1] = 48 + Bit(text[i], 7 - j)

C4_Witness ==
    /\ strat = "Binary" /\ pc = "encrypted"
    /\ Len(text) = 2 /\ text[1] >= 128 /\ text[2] < 128
    /\ Len(out.value) = 16

(* C5: an encrypt or decrypt call made before any setStrategy call with a     *)
(* non-null argument returns false and leaves the destination as it was.      *)
C5_NoStrategyFails ==
    (call.op # "none" /\ lastSet = "none") =>
        (result = "false" /\ fs[call.to] = call.toBefore)

(* k reads as a non-negative decimal integer: digits only, allowing          *)
(* whitespace around them and a '+' in front                                  *)
ParsesAsNonNegative(k) ==
    \E lo \in 1..Len(k) : \E hi \in lo..Len(k) :
        /\ \A i \in 1..(lo - 1) : k[i] = 32 \/ k[i] \in 9..13
        /\ \A i \in (hi + 1)..Len(k) : k[i] = 32 \/ k[i] \in 9..13
        /\ \/ IsDecimal(SubSeq(k, lo, hi))
           \/ k[lo] = 43 /\ IsDecimal(SubSeq(k, lo + 1, hi))

HasNumberPrefix(k) ==
    \E n \in 0..Len(k) : \E sgn \in {0, 1} :
        /\ \A i \in 1..n : k[i] = 32 \/ k[i] \in 9..13
        /\ sgn = 1 => (n + 1 <= Len(k) /\ k[n + 1] \in {43, 45})
        /\ n + sgn + 1 <= Len(k)
        /\ k[n + sgn + 1] \in 48..57

C7_BadLengthFails ==
    (strat = "Binary" /\ pc = "direct" /\ Len(text) % 8 # 0) =>
        (out.kind = "invalid_argument" /\ ~out.oob)

(* C8: with a strategy bound, encrypt and decrypt do not return success when  *)
(* the source file does not exist.                                            *)
C8_MissingSourceFails ==
    (call.op # "none" /\ call.bound \in StrategyKinds /\ ~call.fromBefore.exists) =>
        result # "true"

(* C9: the binding is the argument of the last setStrategy call that was      *)
(* non-null, and before any such call it is no strategy object; neither       *)
(* setStrategy(null) nor encrypt or decrypt changes it.                       *)
C9_BindingIsLastSet ==
    IF lastSet = "none" THEN strategy \notin StrategyKinds ELSE strategy = lastSet

C9_Witness ==
    /\ lastSet = "Caesar" /\ lastArg = "null"
    /\ call.op = "decrypt" /\ call.bound = "XOR" /\ result = "true"
    /\ strategy = "Caesar"

(* C10: after a successful encrypt (decrypt), the destination holds exactly   *)
(* the bound strategy's encrypt (decrypt) of what the source held when the    *)
(* call started, also when source and destination are the same file.          *)
C10_DestinationHoldsTransform ==
    (call.op # "none" /\ call.bound \in StrategyKinds /\ result = "true") =>
        /\ fs[call.to].exists
        /\ Ok(fs[call.to].data) \in
             (IF call.op = "encrypt"
              THEN EncryptOutcomes(call.bound, call.fromBefore.data, call.key)
              ELSE DecryptOutcomes(call.bound, call.fromBefore.data, call.key))

====
